---- MODULE Spec2Model ----
(***************************************************************************)
(* Model of the tasket dataflow library: the push/pull node protocol       *)
(* (try_put / try_get), the successor / predecessor caches, the node       *)
(* types and the executor tasks they submit.                               *)
(*                                                                         *)
(* Every node method takes the node's std::mutex on entry and keeps it     *)
(* until it returns, also across the calls it makes into its neighbours.   *)
(* A thread is a stack of frames, one per method it is inside of.  One     *)
(* step of a thread acquires the mutex of the method it is entering and    *)
(* runs until the thread has to acquire the next mutex (a call into a      *)
(* neighbour), or until the thread's closure is finished.  Code that runs  *)
(* without a mutex (user bodies inside executor tasks) is a step of its    *)
(* own.                                                                    *)
(***************************************************************************)
EXTENDS Naturals, Sequences, FiniteSets, TLC

\* ------------------------------------------------------------------ bounds
NumItems == 3        \* items the source body yields / the producer writes
MaxTasks == 2        \* closures of one node the executor holds at a time
NumPolls == 2        \* try_get calls an outside reader makes
NumUsers == 2        \* closures that bracket their work with the wait count

\* ------------------------------------------------------------- constants
None == 0            \* an empty boost::optional / no item
nullptr == 0         \* the null sender or receiver
NoThread == <<0, 0>> \* a mutex nobody holds

VARIABLES
    kind,            \* node id -> node class
    edges,           \* the make_edge calls: set of <<sender, receiver>>
    successors_,     \* node -> successor cache (or successor list)
    predecessors_,   \* node -> predecessor cache
    value_,          \* node -> latch
    active_,         \* node -> active flag
    queue_,          \* node -> FIFO of queue_node
    mutex_,          \* node -> thread holding the node's mutex
    source_,         \* generator_node: outputs the live body has left
    body_,           \* source_node: items the body has produced so far
                     \* (NumItems + 1 once it has returned false)
    thr,             \* thread -> stack of frames
    emitted,         \* history: node -> items it produced / handed on
    received,        \* history: node -> items it took responsibility for
    pulled,          \* history: node -> the last item it pulled
    results,         \* history: outcomes of the outside callers' calls
    failed,          \* assertions of the code that did not hold
    crashed,         \* a null neighbour was called
    handoff,         \* history: edge -> outcome of the last hand-off tried
                     \* through a cache of one of its ends
    invoked,         \* history: the user callbacks called so far, as
                     \* <<node class, callback, caller held the node's mutex>>
    wait_count_,     \* executor: std::atomic<int> wait_count_
    waiter,          \* executor: where wait_for_all and its closure are
    user             \* closure -> where it is with the wait count

vars == <<kind, edges, successors_, predecessors_, value_, active_, queue_,
          mutex_, source_, body_, thr, emitted, received, pulled, results,
          failed, crashed, handoff, invoked, wait_count_, waiter, user>>

Nodes == DOMAIN kind
Producer == <<0, 1>>
Reader == <<0, 2>>
Drivers == {Producer, Reader}
Tasks == Nodes \X (1..MaxTasks)
Threads == Drivers \cup Tasks

\* ------------------------------------------------------ user callbacks
\* The j-th item of the body of source n (it returns false after NumItems).
source_body(n, j) == (n - 1) * NumItems + j

\* filter_node's predicate: drop the multiples of three.
predicate_(x) == x % 3 # 0

\* function_node's body: square.
function_body(i) == i * i

\* generator_node's body factory: n expands into 1..n.
generator_(i) == [k \in 1..i |-> k]

\* --------------------------------------------------------------- state
\* The program state as one record, so that a method is an operator from
\* state to state.
State ==
    [successors_ |-> successors_, predecessors_ |-> predecessors_,
     value_ |-> value_, active_ |-> active_, queue_ |-> queue_,
     mutex_ |-> mutex_, source_ |-> source_, body_ |-> body_, thr |-> thr,
     emitted |-> emitted, received |-> received, pulled |-> pulled,
     results |-> results, failed |-> failed, crashed |-> crashed,
     handoff |-> handoff, invoked |-> invoked]

Becomes(S) ==
    \E X \in {S} :
        /\ successors_' = X.successors_
        /\ predecessors_' = X.predecessors_
        /\ value_' = X.value_
        /\ active_' = X.active_
        /\ queue_' = X.queue_
        /\ mutex_' = X.mutex_
        /\ source_' = X.source_
        /\ body_' = X.body_
        /\ thr' = X.thr
        /\ emitted' = X.emitted
        /\ received' = X.received
        /\ pulled' = X.pulled
        /\ results' = X.results
        /\ failed' = X.failed
        /\ crashed' = X.crashed
        /\ handoff' = X.handoff
        /\ invoked' = X.invoked
        /\ UNCHANGED <<kind, edges, wait_count_, waiter, user>>

\* A frame: the method `op` of `node` a thread is inside of.  i is the
\* input (or the item pulled from a predecessor), o the output, peer the
\* sender / receiver argument, ret the result of the last call made, k a
\* list position.
Frame(n, op, i, peer) ==
    [node |-> n, op |-> op, pc |-> "enter", i |-> i, o |-> None,
     peer |-> peer, ret |-> FALSE, k |-> 1]

Top(S, t) == S.thr[t][Len(S.thr[t])]

SetTop(S, t, f) == [S EXCEPT !.thr[t][Len(S.thr[t])] = f]

Push(S, t, f) == [S EXCEPT !.thr[t] = Append(@, f)]

\* History: thread t, inside node n, calls the user callback fn.
Invoke(S, n, fn, t) ==
    [S EXCEPT !.invoked = @ \cup {<<kind[n], fn, S.mutex_[n] = t>>}]

\* ASSERT(cond): a failed assertion is recorded.
ASSERT(S, cond, what) ==
    IF cond THEN S ELSE [S EXCEPT !.failed = @ \cup {what}]

\* executor::run: the closure becomes a thread of its own.
executor_run(S, n, i) ==
    LET free == {k \in 1..MaxTasks : S.thr[<<n, k>>] = <<>>}
        k == CHOOSE x \in free : \A y \in free : x <= y
    IN  IF free = {}
        THEN [S EXCEPT !.failed = @ \cup {"MaxTasks"}]
        ELSE [S EXCEPT !.thr[<<n, k>>] =
                  <<[Frame(n, "task", i, nullptr) EXCEPT !.pc = "submitted"]>>]

\* A method returns `ret` (and the item `out` of a try_get): its lock_guard
\* releases the mutex and the caller goes on.
Return(S, t, ret, out) ==
    LET st == S.thr[t]
        f == st[Len(st)]
        rest == SubSeq(st, 1, Len(st) - 1)
        S1 == [S EXCEPT !.mutex_[f.node] = NoThread]
    IN  IF rest = <<>>
        THEN [S1 EXCEPT !.thr[t] = <<>>]
        ELSE LET c == rest[Len(rest)]
                 c2 == [c EXCEPT
                          !.ret = ret,
                          !.i = IF c.pc = "pred_wait" /\ ret THEN out ELSE @,
                          !.o = IF c.pc = "call_wait" THEN out ELSE @,
                          !.pc = CASE c.pc = "succ_wait" -> "succ_ret"
                                   [] c.pc = "pred_wait" -> "pred_ret"
                                   [] c.pc = "each_wait" -> "each_ret"
                                   [] OTHER -> "call_ret"]
             IN  [S1 EXCEPT !.thr[t] = Append(SubSeq(rest, 1, Len(rest) - 1), c2)]

\* The end of an executor closure.
EndTask(S, t) == Return(S, t, TRUE, None)

\* ---------------------------------------------------------------- caches
\* History: the hand-off tried on the edge s -> r through a cache ended
\* as `how`.
Tried(S, s, r, how) ==
    IF <<s, r>> \in DOMAIN S.handoff THEN [S EXCEPT !.handoff[<<s, r>>] = how] ELSE S

\* successor_cache::add / predecessor_cache::add
add(list, x) == IF x # nullptr THEN Append(list, x) ELSE list

\* The item a frame offers to its successors.
PutItem(f) == IF f.op = "task" THEN f.o ELSE f.i

\* A successor_cache::try_put that walks the list from its back.
successor_cache_try_put_offering_last(S, t) ==
    LET f == Top(S, t)
        list == S.successors_[f.node]
    IN  IF list = <<>>
        THEN SetTop(S, t, [f EXCEPT !.ret = FALSE, !.pc = "succ_done"])
        ELSE Push(SetTop(S, t, [f EXCEPT !.pc = "succ_wait"]), t,
                  Frame(list[Len(list)], "try_put", PutItem(f), f.node))

\* successor_cache::try_put, at the loop head: offer to the first cached
\* receiver, or give up when the list is empty.
successor_cache_try_put(S, t) ==
    LET f == Top(S, t)
        list == S.successors_[f.node]
    IN  IF list = <<>>
        THEN SetTop(S, t, [f EXCEPT !.ret = FALSE, !.pc = "succ_done"])
        ELSE Push(SetTop(S, t, [f EXCEPT !.pc = "succ_wait"]), t,
                  Frame(Head(list), "try_put", PutItem(f), f.node))

\* A successor_cache::try_put that erases the entry it offered to whatever
\* the answer.
successor_cache_try_put_ret_erasing_always(S, t) ==
    LET f == Top(S, t)
        r == Head(S.successors_[f.node])
    IN  IF f.ret
        THEN SetTop([Tried(S, f.node, r, "put_accepted") EXCEPT
                        !.successors_[f.node] = Tail(@)], t,
                    [f EXCEPT !.pc = "succ_done"])
        ELSE SetTop([Tried(S, f.node, r, "put_refused") EXCEPT
                        !.successors_[f.node] = Tail(@)], t,
                    [f EXCEPT !.pc = "succ"])

\* successor_cache::try_put, after the receiver answered: return true on
\* acceptance, else erase the entry and go on.
successor_cache_try_put_ret(S, t) ==
    LET f == Top(S, t)
        r == Head(S.successors_[f.node])
    IN  IF f.ret
        THEN SetTop(Tried(S, f.node, r, "put_accepted"), t,
                    [f EXCEPT !.pc = "succ_done"])
        ELSE SetTop([Tried(S, f.node, r, "put_refused") EXCEPT
                        !.successors_[f.node] = Tail(@)], t,
                    [f EXCEPT !.pc = "succ"])

\* predecessor_cache::try_get, at the loop head.
predecessor_cache_try_get(S, t) ==
    LET f == Top(S, t)
        list == S.predecessors_[f.node]
    IN  IF list = <<>>
        THEN SetTop(S, t, [f EXCEPT !.ret = FALSE, !.pc = "pred_done"])
        ELSE Push(SetTop(S, t, [f EXCEPT !.pc = "pred_wait"]), t,
                  Frame(Head(list), "try_get", None, f.node))

\* predecessor_cache::try_get, after the sender answered.
predecessor_cache_try_get_ret(S, t) ==
    LET f == Top(S, t)
        s == Head(S.predecessors_[f.node])
    IN  IF f.ret
        THEN SetTop(Tried(S, s, f.node, "get_satisfied"), t,
                    [f EXCEPT !.pc = "pred_done"])
        ELSE SetTop([Tried(S, s, f.node, "get_refused") EXCEPT
                        !.predecessors_[f.node] = Tail(@)], t,
                    [f EXCEPT !.pc = "pred"])

\* History: node n produced / handed on item x; node n took item x.
Emit(S, n, x) == [S EXCEPT !.emitted[n] = Append(@, x)]

Take(S, n, x) == [S EXCEPT !.received[n] = Append(@, x)]

\* History: node n got item x by predecessors_.try_get.
Pull(S, n, x) == [S EXCEPT !.pulled[n] = x]

\* ------------------------------------------------------------ queue_node
\* queue_node::try_put, up to the call of successors_.try_put(i).
queue_node_try_put(S, t) ==
    LET f == Top(S, t)
    IN  SetTop(Take(S, f.node, f.i), t, [f EXCEPT !.pc = "succ"])

\* A queue_node::try_put that enqueues the item whether or not a successor
\* took it.
queue_node_try_put_ret_enqueueing_always(S, t) ==
    LET f == Top(S, t)
        n == f.node
        S1 == [S EXCEPT !.queue_[n] = Append(@, f.i)]
    IN  IF ~f.ret
        THEN Return(S1, t, TRUE, None)
        ELSE Return(Emit(S1, n, f.i), t, TRUE, None)

\* queue_node::try_put, after successors_.try_put(i): enqueue when nobody
\* took the item, else ASSERT(queue_.empty()); return true.
queue_node_try_put_ret(S, t) ==
    LET f == Top(S, t)
        n == f.node
    IN  IF ~f.ret
        THEN Return([S EXCEPT !.queue_[n] = Append(@, f.i)], t, TRUE, None)
        ELSE Return(Emit(ASSERT(S, S.queue_[n] = <<>>, "queue_.empty()"), n, f.i),
                    t, TRUE, None)

\* A queue_node::try_get that records the receiver whatever it returns.
queue_node_try_get_always_registering(S, t) ==
    LET f == Top(S, t)
        n == f.node
        S1 == [S EXCEPT !.successors_[n] = add(@, f.peer)]
    IN  IF S.queue_[n] = <<>>
        THEN Return(S1, t, FALSE, None)
        ELSE Return(Emit([S1 EXCEPT !.queue_[n] = Tail(@)], n, Head(S.queue_[n])),
                    t, TRUE, Head(S.queue_[n]))

\* queue_node::try_get
queue_node_try_get(S, t) ==
    LET f == Top(S, t)
        n == f.node
    IN  IF S.queue_[n] = <<>>
        THEN Return([S EXCEPT !.successors_[n] = add(@, f.peer)], t, FALSE, None)
        ELSE Return(Emit([S EXCEPT !.queue_[n] = Tail(@)], n, Head(S.queue_[n])),
                    t, TRUE, Head(S.queue_[n]))

\* ----------------------------------------------------------- filter_node
\* filter_node::try_put, up to successors_.try_put(i).
filter_node_try_put(S, t) ==
    LET f == Top(S, t)
        S1 == Invoke(S, f.node, "predicate_", t)
    IN  IF ~predicate_(f.i)
        THEN Return(Take(S1, f.node, f.i), t, TRUE, None)
        ELSE SetTop(S1, t, [f EXCEPT !.pc = "succ"])

\* A filter_node::try_put that keeps a refused item as if it had taken it
\* and does not record the sender.
filter_node_try_put_ret_keeping_item(S, t) ==
    LET f == Top(S, t)
        n == f.node
    IN  IF f.ret
        THEN Return(Emit(Take(S, n, f.i), n, f.i), t, TRUE, None)
        ELSE Return(Take(S, n, f.i), t, FALSE, None)

\* filter_node::try_put, after successors_.try_put(i).
filter_node_try_put_ret(S, t) ==
    LET f == Top(S, t)
        n == f.node
    IN  IF f.ret
        THEN Return(Emit(Take(S, n, f.i), n, f.i), t, TRUE, None)
        ELSE Return([S EXCEPT !.predecessors_[n] = add(@, f.peer)], t, FALSE, None)

\* filter_node::try_get, the head of the while loop.
filter_node_try_get(S, t) ==
    SetTop(S, t, [Top(S, t) EXCEPT !.pc = "pred"])

\* A filter_node::try_get that returns whatever it pulled.
filter_node_try_get_ret_forwarding_all(S, t) ==
    LET f == Top(S, t)
        n == f.node
    IN  IF f.ret
        THEN Return(Emit(Take(Pull(S, n, f.i), n, f.i), n, f.i), t, TRUE, f.i)
        ELSE Return([S EXCEPT !.successors_[n] = add(@, f.peer)], t, FALSE, None)

\* filter_node::try_get, after predecessors_.try_get(o2).
filter_node_try_get_ret(S, t) ==
    LET f == Top(S, t)
        n == f.node
        S1 == Invoke(S, n, "predicate_", t)
    IN  IF f.ret
        THEN IF predicate_(f.i)
             THEN Return(Emit(Take(Pull(S1, n, f.i), n, f.i), n, f.i), t, TRUE, f.i)
             ELSE SetTop(Take(Pull(S1, n, f.i), n, f.i), t, [f EXCEPT !.pc = "pred"])
        ELSE Return([S EXCEPT !.successors_[n] = add(@, f.peer)], t, FALSE, None)

\* --------------------------------------------------------- function_node
\* function_node::spawn_put: mark the node active and submit the body.
function_node_spawn_put(S, n, i) ==
    LET S1 == ASSERT(ASSERT(S, S.value_[n] = None, "function_node !value_"),
                     ~S.active_[n], "function_node !active_")
    IN  executor_run(Take([S1 EXCEPT !.active_[n] = TRUE], n, i), n, i)

\* A function_node::try_put that forgets to look at active_.
function_node_try_put_ignoring_active(S, t) ==
    LET f == Top(S, t)
        n == f.node
    IN  IF S.value_[n] # None
        THEN Return([S EXCEPT !.predecessors_[n] = add(@, f.peer)], t, FALSE, None)
        ELSE Return(function_node_spawn_put(S, n, f.i), t, TRUE, None)

\* A function_node::try_put that forgets to look at value_.
function_node_try_put_ignoring_value(S, t) ==
    LET f == Top(S, t)
        n == f.node
    IN  IF S.active_[n]
        THEN Return([S EXCEPT !.predecessors_[n] = add(@, f.peer)], t, FALSE, None)
        ELSE Return(function_node_spawn_put(S, n, f.i), t, TRUE, None)

\* A function_node::try_put that refuses without recording the sender.
function_node_try_put_forgetting_sender(S, t) ==
    LET f == Top(S, t)
        n == f.node
    IN  IF S.active_[n] \/ S.value_[n] # None
        THEN Return(S, t, FALSE, None)
        ELSE Return(function_node_spawn_put(S, n, f.i), t, TRUE, None)

\* function_node::try_put
function_node_try_put(S, t) ==
    LET f == Top(S, t)
        n == f.node
    IN  IF S.active_[n] \/ S.value_[n] # None
        THEN Return([S EXCEPT !.predecessors_[n] = add(@, f.peer)], t, FALSE, None)
        ELSE Return(function_node_spawn_put(S, n, f.i), t, TRUE, None)

\* function_node::spawn_get, up to predecessors_.try_get(i).
function_node_spawn_get(S, t) ==
    LET f == Top(S, t)
        n == f.node
        S1 == ASSERT(ASSERT(S, S.value_[n] = None, "function_node !value_"),
                     ~S.active_[n], "function_node !active_")
    IN  SetTop(S1, t, [f EXCEPT !.pc = "pred"])

\* function_node::spawn_get, after predecessors_.try_get(i); then the
\* caller (try_get or the task) returns.
function_node_spawn_get_ret(S, t) ==
    LET f == Top(S, t)
        S1 == IF f.ret
              THEN function_node_spawn_put(Pull(S, f.node, f.i), f.node, f.i)
              ELSE S
    IN  IF f.op = "try_get" THEN Return(S1, t, TRUE, f.o) ELSE EndTask(S1, t)

\* A function_node::try_get that does not record the receiver it refuses.
function_node_try_get_forgetting_receiver(S, t) ==
    LET f == Top(S, t)
        n == f.node
    IN  IF S.value_[n] = None
        THEN Return(S, t, FALSE, None)
        ELSE LET S1 == SetTop([S EXCEPT !.value_[n] = None], t,
                              [f EXCEPT !.o = S.value_[n]])
             IN  IF ~S.active_[n]
                 THEN function_node_spawn_get(S1, t)
                 ELSE Return(S1, t, TRUE, S.value_[n])

\* function_node::try_get
function_node_try_get(S, t) ==
    LET f == Top(S, t)
        n == f.node
    IN  IF S.value_[n] = None
        THEN Return([S EXCEPT !.successors_[n] = add(@, f.peer)], t, FALSE, None)
        ELSE LET S1 == SetTop([S EXCEPT !.value_[n] = None], t,
                              [f EXCEPT !.o = S.value_[n]])
             IN  IF ~S.active_[n]
                 THEN function_node_spawn_get(S1, t)
                 ELSE Return(S1, t, TRUE, S.value_[n])

\* A function_node closure that does not clear active_.
function_node_task_keeping_active(S, t) ==
    LET f == Top(S, t)
    IN  SetTop(S, t, [f EXCEPT !.pc = "succ"])

\* The closure of function_node::spawn_put, from its lock_guard to
\* successors_.try_put(o).
function_node_task(S, t) ==
    LET f == Top(S, t)
    IN  SetTop([S EXCEPT !.active_[f.node] = FALSE], t, [f EXCEPT !.pc = "succ"])

\* A function_node closure that, once its output is accepted, does not
\* go back to its refused senders.
function_node_task_ret_never_pulling(S, t) ==
    LET f == Top(S, t)
    IN  IF f.ret
        THEN EndTask(S, t)
        ELSE EndTask([S EXCEPT !.value_[f.node] = f.o], t)

\* The closure of function_node::spawn_put, after successors_.try_put(o).
function_node_task_ret(S, t) ==
    LET f == Top(S, t)
    IN  IF f.ret
        THEN function_node_spawn_get(S, t)
        ELSE EndTask([S EXCEPT !.value_[f.node] = f.o], t)

\* ----------------------------------------------------------- source_node
\* source_node::spawn_put
source_node_spawn_put(S, n) == executor_run(S, n, None)

\* A source_node::try_get that submits a production task even when the
\* latch is empty.
source_node_try_get_spawning_when_empty(S, t) ==
    LET f == Top(S, t)
        n == f.node
    IN  IF S.value_[n] = None
        THEN Return(source_node_spawn_put([S EXCEPT !.successors_[n] = add(@, f.peer)], n),
                    t, FALSE, None)
        ELSE Return(source_node_spawn_put([S EXCEPT !.value_[n] = None], n),
                    t, TRUE, S.value_[n])

\* A source_node::try_get that does not record the receiver when the
\* latch is empty.
source_node_try_get_forgetting_receiver(S, t) ==
    LET f == Top(S, t)
        n == f.node
    IN  IF S.value_[n] = None
        THEN Return(S, t, FALSE, None)
        ELSE Return(source_node_spawn_put([S EXCEPT !.value_[n] = None], n),
                    t, TRUE, S.value_[n])

\* source_node::try_get
source_node_try_get(S, t) ==
    LET f == Top(S, t)
        n == f.node
    IN  IF S.value_[n] = None
        THEN Return([S EXCEPT !.successors_[n] = add(@, f.peer)], t, FALSE, None)
        ELSE Return(source_node_spawn_put([S EXCEPT !.value_[n] = None], n),
                    t, TRUE, S.value_[n])

\* The closure of source_node::spawn_put, from its lock_guard on.
source_node_task(S, t) ==
    SetTop(S, t, [Top(S, t) EXCEPT !.pc = "succ"])

\* A source_node closure that goes on producing after a refusal.
source_node_task_ret_always_respawning(S, t) ==
    LET f == Top(S, t)
    IN  IF ~f.ret
        THEN EndTask(source_node_spawn_put([S EXCEPT !.value_[f.node] = f.o], f.node), t)
        ELSE EndTask(source_node_spawn_put(S, f.node), t)

\* The closure of source_node::spawn_put, after successors_.try_put(o).
source_node_task_ret(S, t) ==
    LET f == Top(S, t)
    IN  IF ~f.ret
        THEN EndTask([S EXCEPT !.value_[f.node] = f.o], t)
        ELSE EndTask(source_node_spawn_put(S, f.node), t)

\* -------------------------------------------------------- generator_node
\* generator_node::spawn: mark the node active and submit a step.
generator_node_spawn(S, n) ==
    executor_run([S EXCEPT !.active_[n] = TRUE], n, None)

\* generator_node::spawn_put: a body for input i replaces source_ (the
\* pull_coroutine runs the body to its first yield), then spawn().
generator_node_spawn_put(S, t, n, i) ==
    LET S1 == ASSERT(Invoke(S, n, "generator_", t), S.source_[n] = <<>>,
                     "generator_node !source_")
    IN  generator_node_spawn(Take([S1 EXCEPT !.source_[n] = generator_(i)], n, i), n)

\* A generator_node::try_put that forgets to look at active_.
generator_node_try_put_ignoring_active(S, t) ==
    LET f == Top(S, t)
        n == f.node
    IN  IF S.value_[n] # None
        THEN Return([S EXCEPT !.predecessors_[n] = add(@, f.peer)], t, FALSE, None)
        ELSE Return(generator_node_spawn_put(S, t, n, f.i), t, TRUE, None)

\* generator_node::try_put
generator_node_try_put(S, t) ==
    LET f == Top(S, t)
        n == f.node
    IN  IF S.active_[n] \/ S.value_[n] # None
        THEN Return([S EXCEPT !.predecessors_[n] = add(@, f.peer)], t, FALSE, None)
        ELSE Return(generator_node_spawn_put(S, t, n, f.i), t, TRUE, None)

\* generator_node::spawn_get, up to predecessors_.try_get(i).
generator_node_spawn_get(S, t) ==
    LET f == Top(S, t)
        S1 == ASSERT(S, ~S.active_[f.node], "generator_node !active_")
    IN  SetTop(S1, t, [f EXCEPT !.pc = "pred"])

\* generator_node::spawn_get, after predecessors_.try_get(i); then the
\* caller (try_get or the step task) returns.
generator_node_spawn_get_ret(S, t) ==
    LET f == Top(S, t)
        S1 == IF f.ret
              THEN generator_node_spawn_put(Pull(S, f.node, f.i), t, f.node, f.i)
              ELSE S
    IN  IF f.op = "try_get" THEN Return(S1, t, TRUE, f.o) ELSE EndTask(S1, t)

\* generator_node::try_get
generator_node_try_get(S, t) ==
    LET f == Top(S, t)
        n == f.node
    IN  IF S.value_[n] = None
        THEN Return([S EXCEPT !.successors_[n] = add(@, f.peer)], t, FALSE, None)
        ELSE LET S1 == SetTop([S EXCEPT !.value_[n] = None], t,
                              [f EXCEPT !.o = S.value_[n]])
             IN  IF ~S.active_[n]
                 THEN generator_node_spawn_get(S1, t)
                 ELSE Return(S1, t, TRUE, S.value_[n])

\* The closure of generator_node::spawn, from its lock_guard on: the body
\* is done (no o_opt) or its output is offered to the successors.
generator_node_task(S, t) ==
    LET f == Top(S, t)
        S1 == [S EXCEPT !.active_[f.node] = FALSE]
    IN  IF f.o = None
        THEN generator_node_spawn_get(S1, t)
        ELSE SetTop(S1, t, [f EXCEPT !.pc = "succ"])

\* The closure of generator_node::spawn, after successors_.try_put(*o_opt).
generator_node_task_ret(S, t) ==
    LET f == Top(S, t)
    IN  IF f.ret
        THEN EndTask(generator_node_spawn(S, f.node), t)
        ELSE EndTask([S EXCEPT !.value_[f.node] = f.o], t)

\* ------------------------------------- generator_node, coroutine variant
\* generator_node::try_put: refuse while active or latched; else mark the
\* node active and submit input_(i), whose body will yield generator_(i).
coroutine_node_try_put(S, t) ==
    LET f == Top(S, t)
        n == f.node
    IN  IF S.active_[n] \/ S.value_[n] # None
        THEN Return([S EXCEPT !.predecessors_[n] = add(@, f.peer)], t, FALSE, None)
        ELSE Return(executor_run(Take([S EXCEPT !.active_[n] = TRUE,
                                                !.source_[n] = generator_(f.i)],
                                      n, f.i), n, f.i),
                    t, TRUE, None)

\* generator_node::try_get: hand the latched value out and
\* cond_.notify_one(), or record the receiver.
coroutine_node_try_get(S, t) ==
    LET f == Top(S, t)
        n == f.node
    IN  IF S.value_[n] = None
        THEN Return([S EXCEPT !.successors_[n] = add(@, f.peer)], t, FALSE, None)
        ELSE Return([S EXCEPT !.value_[n] = None], t, TRUE, S.value_[n])

\* The closure under the mutex: in output_ with a yielded o, up to
\* successors_.try_put(o); or in input_ after the body is over, active_ =
\* false up to predecessors_.try_get(i).
coroutine_node_task(S, t) ==
    LET f == Top(S, t)
    IN  IF f.o = None
        THEN SetTop([S EXCEPT !.active_[f.node] = FALSE], t, [f EXCEPT !.pc = "pred"])
        ELSE SetTop(S, t, [f EXCEPT !.pc = "succ"])

\* output_ after successors_.try_put(o): a refused o goes to value_ and
\* the closure stays in `while (value_) cond_.wait(lock)`, which releases
\* the mutex; an accepted o lets the body run on.
coroutine_node_output_ret(S, t) ==
    LET f == Top(S, t)
        n == f.node
    IN  IF f.ret
        THEN SetTop([S EXCEPT !.mutex_[n] = NoThread], t,
                    [f EXCEPT !.o = None, !.pc = "submitted"])
        ELSE SetTop([S EXCEPT !.value_[n] = f.o, !.mutex_[n] = NoThread], t,
                    [f EXCEPT !.pc = "waiting"])

\* input_ after predecessors_.try_get(i): with an input the node is active
\* again and the body starts over; without one the closure is over.
coroutine_node_input_ret(S, t) ==
    LET f == Top(S, t)
        n == f.node
    IN  IF f.ret
        THEN SetTop(Take(Pull([S EXCEPT !.active_[n] = TRUE,
                                        !.source_[n] = generator_(f.i),
                                        !.mutex_[n] = NoThread], n, f.i), n, f.i),
                    t, [f EXCEPT !.pc = "submitted"])
        ELSE EndTask(S, t)

\* -------------------------------------------------------- overwrite_node
\* overwrite_node::try_put, the loop over successors_: push a copy to the
\* next one, or store the item when the loop is over.  A null entry is
\* called through: the program dies.
overwrite_node_try_put(S, t) ==
    LET f == Top(S, t)
        n == f.node
        list == S.successors_[n]
    IN  IF f.k > Len(list)
        THEN Return([S EXCEPT !.value_[n] = f.i], t, TRUE, None)
        ELSE IF list[f.k] = nullptr
             THEN [S EXCEPT !.crashed = TRUE]
             ELSE Push(SetTop(S, t, [f EXCEPT !.pc = "each_wait"]), t,
                       Frame(list[f.k], "try_put", f.i, n))

\* overwrite_node::try_put, after one successor's try_put: its answer is
\* ignored.
overwrite_node_try_put_ret(S, t) ==
    LET f == Top(S, t)
    IN  SetTop(S, t, [f EXCEPT !.k = @ + 1, !.pc = "each"])

\* An overwrite_node::try_get that moves the value out of the slot.
overwrite_node_try_get_clearing(S, t) ==
    LET f == Top(S, t)
        n == f.node
    IN  IF S.value_[n] = None
        THEN Return([S EXCEPT !.successors_[n] = Append(@, f.peer)], t, FALSE, None)
        ELSE Return([S EXCEPT !.value_[n] = None], t, TRUE, S.value_[n])

\* overwrite_node::try_get: the value is copied out and stays; without a
\* value r is appended to successors_, null or not.
overwrite_node_try_get(S, t) ==
    LET f == Top(S, t)
        n == f.node
    IN  IF S.value_[n] = None
        THEN Return([S EXCEPT !.successors_[n] = Append(@, f.peer)], t, FALSE, None)
        ELSE Return(S, t, TRUE, S.value_[n])

\* -------------------------------------------------------- broadcast_node
\* broadcast_node::try_put, the loop over successors_: push a copy to the
\* next one with a null sender, or return true when the loop is over.  A
\* null entry is called through: the program dies.
broadcast_node_try_put(S, t) ==
    LET f == Top(S, t)
        n == f.node
        list == S.successors_[n]
    IN  IF f.k > Len(list)
        THEN Return(Take(S, n, f.i), t, TRUE, None)
        ELSE IF list[f.k] = nullptr
             THEN [S EXCEPT !.crashed = TRUE]
             ELSE Push(SetTop(Emit(S, n, <<list[f.k], f.i>>), t,
                              [f EXCEPT !.pc = "each_wait"]), t,
                       Frame(list[f.k], "try_put", f.i, nullptr))

\* A broadcast_node::try_put that stops at the first successor that
\* accepts, as a successor cache would.
broadcast_node_try_put_ret_stopping_on_acceptance(S, t) ==
    LET f == Top(S, t)
    IN  IF f.ret
        THEN Return(Take(S, f.node, f.i), t, TRUE, None)
        ELSE SetTop(S, t, [f EXCEPT !.k = @ + 1, !.pc = "each"])

\* broadcast_node::try_put, after one successor's try_put: its answer is
\* ignored.
broadcast_node_try_put_ret(S, t) ==
    LET f == Top(S, t)
    IN  SetTop(S, t, [f EXCEPT !.k = @ + 1, !.pc = "each"])

\* broadcast_node::try_get: r is appended to successors_, null or not, and
\* nothing is returned.
broadcast_node_try_get(S, t) ==
    LET f == Top(S, t)
    IN  Return([S EXCEPT !.successors_[f.node] = Append(@, f.peer)], t, FALSE, None)

\* --------------------------------------------------------------- threads
\* An outside caller's call has returned: its outcome is noted.
DriverReturn(S, t) ==
    LET f == Top(S, t)
    IN  [S EXCEPT !.results = Append(@, [op |-> f.op, i |-> f.i, ret |-> f.ret,
                                         o |-> f.o]),
                  !.thr[t] = <<>>]

\* What a thread does next, once it holds the mutex of the method it is in.
Micro(S, t) ==
    LET f == Top(S, t)
        c == IF f.node = nullptr THEN "driver" ELSE kind[f.node]
    IN  CASE f.pc = "succ" -> successor_cache_try_put(S, t)
          [] f.pc = "succ_ret" -> successor_cache_try_put_ret(S, t)
          [] f.pc = "pred" -> predecessor_cache_try_get(S, t)
          [] f.pc = "pred_ret" -> predecessor_cache_try_get_ret(S, t)
          [] f.pc = "each" /\ c = "overwrite" -> overwrite_node_try_put(S, t)
          [] f.pc = "each_ret" /\ c = "overwrite" -> overwrite_node_try_put_ret(S, t)
          [] f.pc = "each" /\ c = "broadcast" -> broadcast_node_try_put(S, t)
          [] f.pc = "each_ret" /\ c = "broadcast" -> broadcast_node_try_put_ret(S, t)
          [] f.pc = "call_ret" -> DriverReturn(S, t)
          [] f.pc = "begin" /\ c = "queue" /\ f.op = "try_put" -> queue_node_try_put(S, t)
          [] f.pc = "begin" /\ c = "queue" /\ f.op = "try_get" -> queue_node_try_get(S, t)
          [] f.pc = "begin" /\ c = "filter" /\ f.op = "try_put" -> filter_node_try_put(S, t)
          [] f.pc = "begin" /\ c = "filter" /\ f.op = "try_get" -> filter_node_try_get(S, t)
          [] f.pc = "begin" /\ c = "function" /\ f.op = "try_put" -> function_node_try_put(S, t)
          [] f.pc = "begin" /\ c = "function" /\ f.op = "try_get" -> function_node_try_get(S, t)
          [] f.pc = "begin" /\ c = "function" /\ f.op = "task" -> function_node_task(S, t)
          [] f.pc = "begin" /\ c = "source" /\ f.op = "try_get" -> source_node_try_get(S, t)
          [] f.pc = "begin" /\ c = "source" /\ f.op = "task" -> source_node_task(S, t)
          [] f.pc = "begin" /\ c = "generator" /\ f.op = "try_put" -> generator_node_try_put(S, t)
          [] f.pc = "begin" /\ c = "generator" /\ f.op = "try_get" -> generator_node_try_get(S, t)
          [] f.pc = "begin" /\ c = "generator" /\ f.op = "task" -> generator_node_task(S, t)
          [] f.pc = "begin" /\ c = "coroutine" /\ f.op = "try_put" -> coroutine_node_try_put(S, t)
          [] f.pc = "begin" /\ c = "coroutine" /\ f.op = "try_get" -> coroutine_node_try_get(S, t)
          [] f.pc = "begin" /\ c = "coroutine" /\ f.op = "task" -> coroutine_node_task(S, t)
          [] f.pc = "succ_done" /\ c = "coroutine" -> coroutine_node_output_ret(S, t)
          [] f.pc = "pred_done" /\ c = "coroutine" -> coroutine_node_input_ret(S, t)
          [] f.pc = "begin" /\ c = "overwrite" /\ f.op = "try_put" ->
                 SetTop(S, t, [f EXCEPT !.pc = "each"])
          [] f.pc = "begin" /\ c = "overwrite" /\ f.op = "try_get" -> overwrite_node_try_get(S, t)
          [] f.pc = "begin" /\ c = "broadcast" /\ f.op = "try_put" ->
                 SetTop(S, t, [f EXCEPT !.pc = "each"])
          [] f.pc = "begin" /\ c = "broadcast" /\ f.op = "try_get" -> broadcast_node_try_get(S, t)
          [] f.pc = "succ_done" /\ c = "queue" -> queue_node_try_put_ret(S, t)
          [] f.pc = "succ_done" /\ c = "filter" -> filter_node_try_put_ret(S, t)
          [] f.pc = "succ_done" /\ c = "function" -> function_node_task_ret(S, t)
          [] f.pc = "succ_done" /\ c = "source" -> source_node_task_ret(S, t)
          [] f.pc = "succ_done" /\ c = "generator" -> generator_node_task_ret(S, t)
          [] f.pc = "pred_done" /\ c = "filter" -> filter_node_try_get_ret(S, t)
          [] f.pc = "pred_done" /\ c = "function" -> function_node_spawn_get_ret(S, t)
          [] f.pc = "pred_done" /\ c = "generator" -> generator_node_spawn_get_ret(S, t)

\* A thread stops where it has to take a mutex, where it runs a user body
\* without one, where it waits on a condition variable, and where its
\* closure is over.
Stops(S, t) ==
    \/ S.crashed
    \/ S.thr[t] = <<>>
    \/ Top(S, t).pc \in {"enter", "submitted", "body", "waiting"}

RECURSIVE Run(_, _)
Run(S, t) ==
    CHOOSE R \in {IF Stops(X, t) THEN X ELSE Run(Micro(X, t), t) : X \in {S}} : TRUE

\* std::lock_guard<std::mutex> lock(mutex_) at the head of the method thread
\* t is entering, and the method's code up to the next mutex.
Enter(t, class, op) ==
    /\ ~crashed
    /\ thr[t] # <<>>
    /\ LET f == Top(State, t)
       IN  /\ f.pc = "enter"
           /\ f.op = op
           /\ kind[f.node] = class
           /\ mutex_[f.node] = NoThread
           /\ Becomes(Run(SetTop([State EXCEPT !.mutex_[f.node] = t], t,
                                 [f EXCEPT !.pc = "begin"]), t))

\* ------------------------------------------------------------- actions
\* The thread t is at the head of an executor closure of a node of `class`.
Submitted(t, class) ==
    /\ ~crashed
    /\ thr[t] # <<>>
    /\ Top(State, t).pc = "submitted"
    /\ kind[Top(State, t).node] = class

\* source_node::activate, called once per source by the main thread.
Activate ==
    /\ ~crashed
    /\ \E n \in Nodes :
          /\ kind[n] = "source"
          /\ \A j \in 1..Len(results) : ~(results[j].op = "activate" /\ results[j].i = n)
          /\ Becomes([source_node_spawn_put(State, n) EXCEPT
                 !.results = Append(@, [op |-> "activate", i |-> n, ret |-> TRUE,
                                        o |-> None])])

\* The closure of source_node::spawn_put before its lock_guard: the body
\* fills o, or returns false and the closure ends.
SourceBody(t) ==
    /\ Submitted(t, "source")
    /\ LET f == Top(State, t)
           n == f.node
           S1 == Invoke(State, n, "body_", t)
       IN  IF body_[n] >= NumItems
           THEN Becomes([S1 EXCEPT !.thr[t] = <<>>, !.body_[n] = NumItems + 1])
           ELSE LET o == source_body(n, body_[n] + 1)
                IN  Becomes(SetTop(Emit([S1 EXCEPT !.body_[n] = @ + 1], n, o), t,
                                   [f EXCEPT !.o = o, !.pc = "enter"]))

SourceTask(t) == Enter(t, "source", "task")

SourceTryGet(t) == Enter(t, "source", "try_get")

FilterTryPut(t) == Enter(t, "filter", "try_put")

FilterTryGet(t) == Enter(t, "filter", "try_get")

\* The closure of function_node::spawn_put starts: ASSERT(!value_), then
\* the body is entered.
FunctionBodyBegin(t) ==
    /\ Submitted(t, "function")
    /\ LET f == Top(State, t)
       IN  Becomes(SetTop(ASSERT(State, value_[f.node] = None,
                                 "function_node task !value_"), t,
                          [f EXCEPT !.pc = "body"]))

\* auto o = body_(i): the body returns.
FunctionBodyEnd(t) ==
    /\ ~crashed
    /\ thr[t] # <<>>
    /\ LET f == Top(State, t)
       IN  /\ f.pc = "body"
           /\ Becomes(SetTop(Emit(Invoke(State, f.node, "body_", t), f.node,
                                  function_body(f.i)), t,
                             [f EXCEPT !.o = function_body(f.i), !.pc = "enter"]))

FunctionTask(t) == Enter(t, "function", "task")

FunctionTryPut(t) == Enter(t, "function", "try_put")

FunctionTryGet(t) == Enter(t, "function", "try_get")

\* The closure of generator_node::spawn before its lock_guard: take the
\* body's current output, if it has one, and advance the body.
GeneratorStep(t) ==
    /\ Submitted(t, "generator")
    /\ LET f == Top(State, t)
           n == f.node
       IN  IF source_[n] = <<>>
           THEN Becomes(SetTop(State, t, [f EXCEPT !.pc = "enter"]))
           ELSE Becomes(SetTop(Emit(Invoke([State EXCEPT !.source_[n] = Tail(@)],
                                           n, "source_", t), n,
                                    Head(source_[n])), t,
                               [f EXCEPT !.o = Head(source_[n]), !.pc = "enter"]))

GeneratorTask(t) == Enter(t, "generator", "task")

GeneratorTryPut(t) == Enter(t, "generator", "try_put")

GeneratorTryGet(t) == Enter(t, "generator", "try_get")

\* The closure input_(i) outside the mutex: the body runs to its next
\* yield, which enters output_, or to its end.
CoroutineStep(t) ==
    /\ Submitted(t, "coroutine")
    /\ LET f == Top(State, t)
           n == f.node
           S1 == Invoke(State, n, "generator_", t)
       IN  IF source_[n] = <<>>
           THEN Becomes(SetTop(S1, t, [f EXCEPT !.o = None, !.pc = "enter"]))
           ELSE Becomes(SetTop(Emit([S1 EXCEPT !.source_[n] = Tail(@)], n,
                                    Head(source_[n])), t,
                               [f EXCEPT !.o = Head(source_[n]), !.pc = "enter"]))

\* cond_.wait(lock) returns with the mutex and `while (value_)` is over:
\* the body runs on.  (A wake-up that finds value_ set waits again.)
CoroutineWake(t) ==
    /\ ~crashed
    /\ thr[t] # <<>>
    /\ LET f == Top(State, t)
       IN  /\ f.pc = "waiting"
           /\ mutex_[f.node] = NoThread
           /\ value_[f.node] = None
           /\ Becomes(SetTop(State, t, [f EXCEPT !.o = None, !.pc = "submitted"]))

CoroutineTask(t) == Enter(t, "coroutine", "task")

CoroutineTryPut(t) == Enter(t, "coroutine", "try_put")

CoroutineTryGet(t) == Enter(t, "coroutine", "try_get")

QueueTryPut(t) == Enter(t, "queue", "try_put")

QueueTryGet(t) == Enter(t, "queue", "try_get")

OverwriteTryPut(t) == Enter(t, "overwrite", "try_put")

OverwriteTryGet(t) == Enter(t, "overwrite", "try_get")

BroadcastTryPut(t) == Enter(t, "broadcast", "try_put")

BroadcastTryGet(t) == Enter(t, "broadcast", "try_get")

\* Calls an outside thread has completed so far.
Calls(op) == {j \in 1..Len(results) : results[j].op = op}

\* An outside producer offers the next item to the head node:
\* try_put(i, nullptr).
ProducerPut ==
    /\ ~crashed
    /\ thr[Producer] = <<>>
    /\ Cardinality(Calls("put")) < NumItems
    /\ LET i == Cardinality(Calls("put")) + 1
       IN  Becomes([State EXCEPT !.thr[Producer] =
               <<[Frame(nullptr, "put", i, nullptr) EXCEPT !.pc = "call_wait"],
                 Frame(1, "try_put", i, nullptr)>>])

\* An outside reader polls the head node: try_get(o, nullptr).
ReaderGet ==
    /\ ~crashed
    /\ thr[Reader] = <<>>
    /\ Cardinality(Calls("get")) < NumPolls
    /\ Becomes([State EXCEPT !.thr[Reader] =
           <<[Frame(nullptr, "get", None, nullptr) EXCEPT !.pc = "call_wait"],
             Frame(1, "try_get", None, nullptr)>>])

\* ------------------------------------------------------------- graphs
\* make_edge(s, r) for every edge, in the order of the receivers' ids.
RECURSIVE Registered(_, _)
Registered(E, s) ==
    LET rs == {e[2] : e \in {x \in E : x[1] = s}}
        r == CHOOSE x \in rs : \A y \in rs : x <= y
    IN  IF rs = {} THEN <<>> ELSE <<r>> \o Registered(E \ {<<s, r>>}, s)

\* A pipeline: source_node -> stages -> queue_node (the sink).
Pipeline(stages) ==
    LET k == <<"source">> \o stages \o <<"queue">>
    IN  [kind |-> k, edges |-> {<<j, j + 1>> : j \in 1..(Len(k) - 1)}]

\* Two sources feeding one function_node.
FanIn ==
    [kind |-> <<"source", "source", "function", "queue">>,
     edges |-> {<<1, 3>>, <<2, 3>>, <<3, 4>>}]

Pipelines ==
    {Pipeline(<<"function">>),
     Pipeline(<<"filter", "function">>),
     Pipeline(<<"function", "function">>),
     Pipeline(<<"generator">>),
     Pipeline(<<"generator", "function">>),
     Pipeline(<<"filter", "generator">>),
     Pipeline(<<"queue", "function">>)}

\* The graph g after construction and make_edge.
InitGraph(g) ==
    /\ kind = g.kind
    /\ edges = g.edges
    /\ successors_ = [n \in DOMAIN g.kind |-> Registered(g.edges, n)]
    /\ predecessors_ = [n \in DOMAIN g.kind |-> <<>>]
    /\ value_ = [n \in DOMAIN g.kind |-> None]
    /\ active_ = [n \in DOMAIN g.kind |-> FALSE]
    /\ queue_ = [n \in DOMAIN g.kind |-> <<>>]
    /\ mutex_ = [n \in DOMAIN g.kind |-> NoThread]
    /\ source_ = [n \in DOMAIN g.kind |-> <<>>]
    /\ body_ = [n \in DOMAIN g.kind |-> 0]
    /\ thr = [t \in Drivers \cup ((DOMAIN g.kind) \X (1..MaxTasks)) |-> <<>>]
    /\ emitted = [n \in DOMAIN g.kind |-> <<>>]
    /\ received = [n \in DOMAIN g.kind |-> <<>>]
    /\ pulled = [n \in DOMAIN g.kind |-> None]
    /\ results = <<>>
    /\ failed = {}
    /\ crashed = FALSE
    /\ handoff = [e \in g.edges |-> "none"]
    /\ invoked = {}
    /\ wait_count_ = 0
    /\ waiter = "idle"
    /\ user = <<>>

Init == \E g \in Pipelines \cup {FanIn} : InitGraph(g)

Next ==
    \/ Activate
    \/ \E t \in Threads : SourceBody(t)
    \/ \E t \in Threads : SourceTask(t)
    \/ \E t \in Threads : SourceTryGet(t)
    \/ \E t \in Threads : FilterTryPut(t)
    \/ \E t \in Threads : FilterTryGet(t)
    \/ \E t \in Threads : FunctionBodyBegin(t)
    \/ \E t \in Threads : FunctionBodyEnd(t)
    \/ \E t \in Threads : FunctionTask(t)
    \/ \E t \in Threads : FunctionTryPut(t)
    \/ \E t \in Threads : FunctionTryGet(t)
    \/ \E t \in Threads : GeneratorStep(t)
    \/ \E t \in Threads : GeneratorTask(t)
    \/ \E t \in Threads : GeneratorTryPut(t)
    \/ \E t \in Threads : GeneratorTryGet(t)
    \/ \E t \in Threads : QueueTryPut(t)
    \/ \E t \in Threads : QueueTryGet(t)

Spec == Init /\ [][Next]_vars

\* Fairness: an executor task or caller that can take a step eventually does.
SpecLive == Spec /\ WF_vars(Next)

\* ------------------------------------------------- queue_node on its own
\* A producer feeds a queue_node wired to one or two function_nodes, which
\* feed a sink queue; a reader polls the queue_node.
QueueGraphs ==
    {[kind |-> <<"queue", "function", "queue">>,
      edges |-> {<<1, 2>>, <<2, 3>>}],
     [kind |-> <<"queue", "function", "function", "queue">>,
      edges |-> {<<1, 2>>, <<1, 3>>, <<2, 4>>, <<3, 4>>}]}

InitQueue == \E g \in QueueGraphs : InitGraph(g)

NextQueue ==
    \/ ProducerPut
    \/ ReaderGet
    \/ \E t \in Threads : QueueTryPut(t)
    \/ \E t \in Threads : QueueTryGet(t)
    \/ \E t \in Threads : FunctionTryPut(t)
    \/ \E t \in Threads : FunctionBodyBegin(t)
    \/ \E t \in Threads : FunctionBodyEnd(t)
    \/ \E t \in Threads : FunctionTask(t)

SpecQueue == InitQueue /\ [][NextQueue]_vars

\* ------------------------------------------- source_node with two receivers
\* A source_node wired to one function_node, to a chain of two, or to two
\* side by side, which feed a sink queue.
SourceGraphs ==
    {Pipeline(<<"function">>),
     Pipeline(<<"function", "function">>),
     [kind |-> <<"source", "function", "function", "queue">>,
      edges |-> {<<1, 2>>, <<1, 3>>, <<2, 4>>, <<3, 4>>}]}

InitSource == \E g \in SourceGraphs : InitGraph(g)

NextSource ==
    \/ Activate
    \/ \E t \in Threads : SourceBody(t)
    \/ \E t \in Threads : SourceTask(t)
    \/ \E t \in Threads : SourceTryGet(t)
    \/ \E t \in Threads : FunctionTryPut(t)
    \/ \E t \in Threads : FunctionTryGet(t)
    \/ \E t \in Threads : FunctionBodyBegin(t)
    \/ \E t \in Threads : FunctionBodyEnd(t)
    \/ \E t \in Threads : FunctionTask(t)
    \/ \E t \in Threads : QueueTryPut(t)

SpecSource == InitSource /\ [][NextSource]_vars

\* Fairness: an executor task or caller that can take a step eventually does.
SpecSourceLive == SpecSource /\ WF_vars(NextSource)

\* ------------------------------------------------ the caches on their own
\* A queue_node with two function_nodes in its successor cache, and a
\* function_node with two source_nodes to keep in its predecessor cache.
FanOut ==
    [kind |-> <<"queue", "function", "function", "queue">>,
     edges |-> {<<1, 2>>, <<1, 3>>, <<2, 4>>, <<3, 4>>}]

InitCache == \E g \in {FanOut, FanIn} : InitGraph(g)

NextCache ==
    \/ Activate
    \/ \E t \in Threads : SourceBody(t)
    \/ \E t \in Threads : SourceTask(t)
    \/ \E t \in Threads : SourceTryGet(t)
    \/ kind[1] = "queue" /\ ProducerPut
    \/ kind[1] = "queue" /\ ReaderGet
    \/ \E t \in Threads : QueueTryPut(t)
    \/ \E t \in Threads : QueueTryGet(t)
    \/ \E t \in Threads : FunctionTryPut(t)
    \/ \E t \in Threads : FunctionBodyBegin(t)
    \/ \E t \in Threads : FunctionBodyEnd(t)
    \/ \E t \in Threads : FunctionTask(t)

SpecCache == InitCache /\ [][NextCache]_vars

\* ------------------------------- generator_node, coroutine variant, alone
\* A producer feeds a coroutine generator_node wired to a function_node
\* and a sink queue; or a source_node feeds one wired to a sink queue.
CoroutineGraphs ==
    {[kind |-> <<"coroutine", "function", "queue">>, edges |-> {<<1, 2>>, <<2, 3>>}],
     [kind |-> <<"source", "coroutine", "queue">>, edges |-> {<<1, 2>>, <<2, 3>>}]}

InitCoroutine == \E g \in CoroutineGraphs : InitGraph(g)

NextCoroutine ==
    \/ Activate
    \/ \E t \in Threads : SourceBody(t)
    \/ \E t \in Threads : SourceTask(t)
    \/ \E t \in Threads : SourceTryGet(t)
    \/ kind[1] = "coroutine" /\ ProducerPut
    \/ \E t \in Threads : CoroutineTryPut(t)
    \/ \E t \in Threads : CoroutineStep(t)
    \/ \E t \in Threads : CoroutineTask(t)
    \/ \E t \in Threads : CoroutineWake(t)
    \/ \E t \in Threads : CoroutineTryGet(t)
    \/ \E t \in Threads : FunctionTryPut(t)
    \/ \E t \in Threads : FunctionBodyBegin(t)
    \/ \E t \in Threads : FunctionBodyEnd(t)
    \/ \E t \in Threads : FunctionTask(t)
    \/ \E t \in Threads : QueueTryPut(t)

SpecCoroutine == InitCoroutine /\ [][NextCoroutine]_vars

\* --------------------------------------------- overwrite_node on its own
\* A producer writes to an overwrite_node wired to a sink queue; a reader
\* polls it.
OverwriteGraphs ==
    {[kind |-> <<"overwrite", "queue">>, edges |-> {<<1, 2>>}],
     [kind |-> <<"overwrite", "queue", "queue">>, edges |-> {<<1, 2>>, <<1, 3>>}]}

InitOverwrite == \E g \in OverwriteGraphs : InitGraph(g)

NextOverwrite ==
    \/ ProducerPut
    \/ ReaderGet
    \/ \E t \in Threads : OverwriteTryPut(t)
    \/ \E t \in Threads : OverwriteTryGet(t)
    \/ \E t \in Threads : QueueTryPut(t)

SpecOverwrite == InitOverwrite /\ [][NextOverwrite]_vars

\* --------------------------------------------- broadcast_node on its own
\* A producer writes to a broadcast_node wired to two sink queues, or to a
\* function_node (which refuses while busy) and a sink queue; a reader
\* polls it.
BroadcastGraphs ==
    {[kind |-> <<"broadcast", "queue", "queue">>, edges |-> {<<1, 2>>, <<1, 3>>}],
     [kind |-> <<"broadcast", "function", "queue", "queue">>,
      edges |-> {<<1, 2>>, <<1, 3>>, <<2, 4>>}]}

InitBroadcast == \E g \in BroadcastGraphs : InitGraph(g)

NextBroadcast ==
    \/ ProducerPut
    \/ ReaderGet
    \/ \E t \in Threads : BroadcastTryPut(t)
    \/ \E t \in Threads : BroadcastTryGet(t)
    \/ \E t \in Threads : QueueTryPut(t)
    \/ \E t \in Threads : FunctionTryPut(t)
    \/ \E t \in Threads : FunctionBodyBegin(t)
    \/ \E t \in Threads : FunctionBodyEnd(t)
    \/ \E t \in Threads : FunctionTask(t)

SpecBroadcast == InitBroadcast /\ [][NextBroadcast]_vars

\* An outside caller polls the head node on behalf of one of its wired
\* receivers: try_get(o, &r).
ReceiverGet ==
    /\ ~crashed
    /\ thr[Reader] = <<>>
    /\ Cardinality(Calls("get")) < NumPolls
    /\ \E e \in edges :
          /\ e[1] = 1
          /\ Becomes([State EXCEPT !.thr[Reader] =
                 <<[Frame(nullptr, "get", None, nullptr) EXCEPT !.pc = "call_wait"],
                   Frame(1, "try_get", None, e[2])>>])

\* A broadcast_node whose wired receivers are also named in try_get calls.
NextBroadcastPull ==
    \/ ProducerPut
    \/ ReceiverGet
    \/ \E t \in Threads : BroadcastTryPut(t)
    \/ \E t \in Threads : BroadcastTryGet(t)
    \/ \E t \in Threads : QueueTryPut(t)
    \/ \E t \in Threads : FunctionTryPut(t)
    \/ \E t \in Threads : FunctionBodyBegin(t)
    \/ \E t \in Threads : FunctionBodyEnd(t)
    \/ \E t \in Threads : FunctionTask(t)

SpecBroadcastPull == InitBroadcast /\ [][NextBroadcastPull]_vars

\* ------------------------------- overwrite_node before a function_node
\* A producer writes to an overwrite_node wired to a function_node that
\* feeds a sink queue.
LatchGraphs ==
    {[kind |-> <<"overwrite", "function", "queue">>, edges |-> {<<1, 2>>, <<2, 3>>}]}

InitLatch == \E g \in LatchGraphs : InitGraph(g)

\* The bodies a function_node may run before the model stops following it.
MaxRuns == NumItems + 2

\* FunctionBodyBegin, as long as fewer than MaxRuns bodies have run.
LatchBodyBegin(t) ==
    /\ \A n \in Nodes : Len(emitted[n]) < MaxRuns
    /\ FunctionBodyBegin(t)

NextLatch ==
    \/ ProducerPut
    \/ \E t \in Threads : OverwriteTryPut(t)
    \/ \E t \in Threads : OverwriteTryGet(t)
    \/ \E t \in Threads : FunctionTryPut(t)
    \/ \E t \in Threads : LatchBodyBegin(t)
    \/ \E t \in Threads : FunctionBodyEnd(t)
    \/ \E t \in Threads : FunctionTask(t)
    \/ \E t \in Threads : QueueTryPut(t)

SpecLatch == InitLatch /\ [][NextLatch]_vars

\* ------------------------------------------------------ executor's wait
\* Closures bracket their work with increment_wait_count /
\* decrement_wait_count; the main thread calls wait_for_all once the
\* counts are taken.
nodevars == <<kind, edges, successors_, predecessors_, value_, active_, queue_,
              mutex_, source_, body_, thr, emitted, received, pulled, results,
              failed, crashed, handoff, invoked>>

Users == 1..NumUsers

\* executor() leaves std::atomic<int> wait_count_ uninitialised: it starts
\* at zero or at whatever the memory held.
Indeterminate == {0, 1}

InitExecutor ==
    /\ kind = <<>>
    /\ edges = {}
    /\ successors_ = <<>>
    /\ predecessors_ = <<>>
    /\ value_ = <<>>
    /\ active_ = <<>>
    /\ queue_ = <<>>
    /\ mutex_ = <<>>
    /\ source_ = <<>>
    /\ body_ = <<>>
    /\ thr = [t \in Drivers |-> <<>>]
    /\ emitted = <<>>
    /\ received = <<>>
    /\ pulled = <<>>
    /\ results = <<>>
    /\ failed = {}
    /\ crashed = FALSE
    /\ handoff = <<>>
    /\ invoked = {}
    /\ wait_count_ \in Indeterminate
    /\ waiter = "idle"
    /\ user = [u \in Users |-> "new"]

\* executor::increment_wait_count
increment_wait_count(u) ==
    /\ user[u] = "new"
    /\ wait_count_' = wait_count_ + 1
    /\ user' = [user EXCEPT ![u] = "counted"]
    /\ UNCHANGED <<nodevars, waiter>>

\* executor::decrement_wait_count: --wait_count_
decrement_wait_count(u) ==
    /\ user[u] = "counted"
    /\ wait_count_' = wait_count_ - 1
    /\ user' = [user EXCEPT ![u] = "notifying"]
    /\ UNCHANGED <<nodevars, waiter>>

\* executor::decrement_wait_count: wait_cond_.notify_one(), without
\* wait_mutex_: a thread blocked in wait is woken, if there is one.
notify_one(u) ==
    /\ user[u] = "notifying"
    /\ user' = [user EXCEPT ![u] = "done"]
    /\ waiter' = IF waiter = "waiting" THEN "woken" ELSE waiter
    /\ UNCHANGED <<nodevars, wait_count_>>

\* executor::wait_for_all: the waiting closure is submitted, then the main
\* thread is in task_group_.wait().
wait_for_all ==
    /\ waiter = "idle"
    /\ \A u \in Users : user[u] # "new"
    /\ waiter' = "submitted"
    /\ UNCHANGED <<nodevars, wait_count_, user>>

\* The closure of wait_for_all: std::unique_lock wait_lock(wait_mutex_),
\* which nobody else takes; also the re-lock after a wake-up.
WaiterLock ==
    /\ waiter \in {"submitted", "woken"}
    /\ waiter' = "locked"
    /\ UNCHANGED <<nodevars, wait_count_, user>>

\* wait_cond_.wait(wait_lock, pred): the predicate wait_count_ == 0 is
\* evaluated; the closure ends when it holds.
WaiterPredicate ==
    /\ waiter = "locked"
    /\ waiter' = IF wait_count_ = 0 THEN "done" ELSE "blocking"
    /\ UNCHANGED <<nodevars, wait_count_, user>>

\* wait_cond_.wait(wait_lock): the lock is released and the closure blocks.
WaiterBlock ==
    /\ waiter = "blocking"
    /\ waiter' = "waiting"
    /\ UNCHANGED <<nodevars, wait_count_, user>>

\* A condition variable may wake a waiting thread without a notification.
SpuriousWakeup ==
    /\ waiter = "waiting"
    /\ waiter' = "woken"
    /\ UNCHANGED <<nodevars, wait_count_, user>>

\* task_group_.wait() returns when every submitted closure is over.
task_group_wait ==
    /\ waiter = "done"
    /\ \A u \in Users : user[u] = "done"
    /\ waiter' = "returned"
    /\ UNCHANGED <<nodevars, wait_count_, user>>

NextExecutor ==
    \/ \E u \in Users : increment_wait_count(u)
    \/ \E u \in Users : decrement_wait_count(u)
    \/ \E u \in Users : notify_one(u)
    \/ wait_for_all
    \/ WaiterLock
    \/ WaiterPredicate
    \/ WaiterBlock
    \/ SpuriousWakeup
    \/ task_group_wait

SpecExecutor == InitExecutor /\ [][NextExecutor]_vars

\* Fairness: the pool runs every closure that can take a step; a wake-up
\* without a notification is not owed.
FairExecutor ==
    /\ \A u \in Users : WF_vars(increment_wait_count(u))
    /\ \A u \in Users : WF_vars(decrement_wait_count(u))
    /\ \A u \in Users : WF_vars(notify_one(u))
    /\ WF_vars(wait_for_all)
    /\ WF_vars(WaiterLock)
    /\ WF_vars(WaiterPredicate)
    /\ WF_vars(WaiterBlock)
    /\ WF_vars(task_group_wait)

SpecExecutorLive == SpecExecutor /\ FairExecutor

\* ==================================================================
\* Properties
\* ==================================================================
IsPrefix(a, b) == Len(a) <= Len(b) /\ a = SubSeq(b, 1, Len(a))

Range(a) == {a[j] : j \in DOMAIN a}

Count(x, a) == Cardinality({j \in DOMAIN a : a[j] = x})

SameBag(a, b) == \A x \in Range(a) \cup Range(b) : Count(x, a) = Count(x, b)

\* No executor task is in flight and no outside call is under way.
Quiescent == \A t \in Threads : thr[t] = <<>>

\* Every source body has returned false.
Exhausted == \A n \in Nodes : kind[n] = "source" => body_[n] = NumItems + 1

\* The thread t is inside a method of node n (or an executor closure of n).
Inside(t, n) == \E j \in DOMAIN thr[t] : thr[t][j].node = n

\* The thread t waits for the mutex of the method it is entering.
Waiting(t) ==
    /\ thr[t] # <<>>
    /\ thr[t][Len(thr[t])].pc = "enter"
    /\ mutex_[thr[t][Len(thr[t])].node] # NoThread

\* source_node -> (filter_node | function_node | generator_node)* -> sink
IsPipeline ==
    /\ kind[1] = "source"
    /\ edges = {<<j, j + 1>> : j \in 1..(Len(kind) - 1)}
    /\ \A n \in 2..(Len(kind) - 1) : kind[n] \in {"filter", "function", "generator"}

Sink == Len(kind)

RECURSIVE Flatten(_)
Flatten(ss) == IF ss = <<>> THEN <<>> ELSE Head(ss) \o Flatten(Tail(ss))

\* What a node of `class` makes of the stream a.
Image(class, a) ==
    CASE class = "filter" -> SelectSeq(a, predicate_)
      [] class = "function" -> [j \in DOMAIN a |-> function_body(a[j])]
      [] class = "generator" -> Flatten([j \in DOMAIN a |-> generator_(a[j])])
      [] OTHER -> a

\* The stream node n of a pipeline hands on when nothing is lost.
RECURSIVE Stream(_)
Stream(n) ==
    IF n = 1 THEN [j \in 1..NumItems |-> source_body(1, j)]
    ELSE Image(kind[n], Stream(n - 1))

\* C1 (as claimed): in a pipeline source -> (filter | function |
\* generator)* -> sink, once the source is exhausted and the graph is
\* quiescent, the items at the sink are, as a multiset, the image of the
\* source's items under the composed bodies and predicates.
C1_NoLossNoDuplication ==
    (IsPipeline /\ Quiescent /\ Exhausted) =>
        SameBag(queue_[Sink], Stream(Sink))

\* The items r got from s: all it received, when s is its only sender.
ReceivedFrom(s, r) ==
    IF Cardinality({e \in edges : e[2] = r}) = 1
    THEN received[r]
    ELSE SelectSeq(received[r], LAMBDA x : x \in Range(emitted[s]))

\* C2: on every edge s -> r the receiver obtains the items, pushed or
\* pulled, in the order the sender produced them: what r has got from s
\* is at all times a prefix of what s has produced.
C2_EdgeOrder ==
    \A e \in edges : IsPrefix(ReceivedFrom(e[1], e[2]), emitted[e[1]])

\* C2 witness: a function_node refused a source's item, pulled it later
\* from the source's latch, and has received a later item since.
C2_Witness ==
    \E e \in edges :
        /\ kind[e[1]] = "source"
        /\ kind[e[2]] = "function"
        /\ pulled[e[2]] # None
        /\ \E j \in 1..(Len(received[e[2]]) - 1) : received[e[2]][j] = pulled[e[2]]

InBody(n) ==
    {t \in Tasks : t[1] = n /\ thr[t] # <<>> /\ thr[t][1].pc = "body"}

\* C4: at every instant at most one closure runs the body of a
\* function_node.
C4_OneBodyAtATime ==
    \A n \in Nodes : kind[n] = "function" => Cardinality(InBody(n)) <= 1

\* C4 witness: the body of a function_node with two senders runs while it
\* has refused both of them.
C4_Witness ==
    \E n \in Nodes :
        /\ kind[n] = "function"
        /\ InBody(n) # {}
        /\ Len(predecessors_[n]) >= 2

\* Step closures of generator_node n that are submitted and have not yet
\* taken the node's mutex: they are advancing the body, or about to.
StepsInFlight(n) ==
    {t \in Tasks : t[1] = n /\ thr[t] # <<>> /\ thr[t][1].pc \in {"submitted", "enter"}}

\* C5: at most one step task of a generator_node is in flight.
C5_OneStepAtATime ==
    \A n \in Nodes : kind[n] = "generator" => Cardinality(StepsInFlight(n)) <= 1

\* C5 witness: a step is in flight for a body the generator got by a pull
\* made from a downstream try_get, while it has refused its sender again.
C5_Witness ==
    \E n \in Nodes :
        /\ kind[n] = "generator"
        /\ StepsInFlight(n) # {}
        /\ pulled[n] # None
        /\ pulled[n + 1] # None
        /\ predecessors_[n] # <<>>

\* The outputs a generator_node owes for the inputs a: each input's
\* outputs in the order its body yields them, input after input.
Owed(a) == Flatten([j \in DOMAIN a |-> generator_(a[j])])

\* C6 (as claimed): whenever the current body of a generator_node still
\* has outputs to yield and nobody is inside the node, a step task is in
\* flight or the latch holds a value; and a body that is still live is
\* never replaced by a body for a new input (ASSERT(!source_) in
\* spawn_put never fails).
C6_LiveBodyIsResumed ==
    /\ "generator_node !source_" \notin failed
    /\ \A n \in Nodes :
          (kind[n] = "generator" /\ mutex_[n] = NoThread /\ source_[n] # <<>>) =>
              (StepsInFlight(n) # {} \/ value_[n] # None)

\* C7 (as claimed): what a generator_node has emitted is at all times a
\* prefix of the outputs owed for the inputs it accepted: each input's
\* outputs in the body's order, and all outputs of an earlier input before
\* any output of a later one.
C7_GeneratorOrder ==
    \A n \in Nodes :
        kind[n] = "generator" => IsPrefix(emitted[n], Owed(received[n]))

\* The position of the last "put" an outside caller completed before the
\* j-th completed call, or 0.
LastPut(j) ==
    LET puts == {k \in Calls("put") : k < j}
    IN  IF puts = {} THEN 0 ELSE CHOOSE k \in puts : \A m \in puts : m <= k

\* C8: overwrite_node is a most-recently-written register: a try_get
\* completed before any try_put is refused; every other try_get returns
\* true with the item of the most recently completed try_put, and the item
\* stays stored, so repeated reads return it again.
C8_LatestWins ==
    \A j \in Calls("get") :
        IF LastPut(j) = 0
        THEN ~results[j].ret
        ELSE results[j].ret /\ results[j].o = results[LastPut(j)].i

\* C8 witness: after two writes, two reads in a row with no write in
\* between both return the second item.
C8_Witness ==
    \E j \in 1..(Len(results) - 1) :
        /\ results[j].op = "get" /\ results[j + 1].op = "get"
        /\ results[j].ret /\ results[j + 1].ret
        /\ results[j].o = 2 /\ results[j + 1].o = 2

\* C9: while nobody holds a queue_node's mutex, its successor cache and
\* its FIFO are not both nonempty; ASSERT(queue_.empty()) in try_put never
\* fails.
C9_CacheOrFifoEmpty ==
    /\ "queue_.empty()" \notin failed
    /\ \A n \in Nodes :
          (kind[n] = "queue" /\ mutex_[n] = NoThread) =>
              (successors_[n] = <<>> \/ queue_[n] = <<>>)

\* C9 witness: a function_node pulled a buffered item out of the FIFO, was
\* recorded again once the FIFO ran empty, and a later item was handed to
\* it directly, passing the assertion.
C9_Witness ==
    /\ kind[1] = "queue"
    /\ mutex_[1] = NoThread
    /\ successors_[1] # <<>>
    /\ \E r \in Nodes :
          /\ <<1, r>> \in edges
          /\ pulled[r] # None
          /\ received[r] # <<>>
          /\ received[r][Len(received[r])] > pulled[r]

\* C10: every try_put of a queue_node is accepted, and while nobody holds
\* its mutex the items that arrived are exactly the items that left, in
\* arrival order, followed by the items still in the FIFO: no item is lost,
\* leaves twice, or overtakes an earlier one.
C10_AcceptedOnceInOrder ==
    /\ \A j \in Calls("put") : results[j].ret
    /\ \A n \in Nodes :
          (kind[n] = "queue" /\ mutex_[n] = NoThread) =>
              received[n] = emitted[n] \o queue_[n]

\* C10 witness: of three accepted items one was handed directly to a
\* successor and one was returned from the FIFO by an outside try_get.
C10_Witness ==
    /\ kind[1] = "queue"
    /\ mutex_[1] = NoThread
    /\ Cardinality(Calls("put")) = NumItems
    /\ \E j \in Calls("get") : results[j].ret
    /\ \E r \in Nodes : <<1, r>> \in edges /\ received[r] # <<>> /\ pulled[r] = None

\* Production closures of source_node n that are submitted and not over.
ProductionInFlight(n) == {t \in Tasks : t[1] = n /\ thr[t] # <<>>}

Offers(b, r) ==
    LET to == SelectSeq(emitted[b], LAMBDA x : x[1] = r)
    IN  [j \in DOMAIN to |-> to[j][2]]

C13_FilterGates ==
    \A n \in Nodes :
        kind[n] = "filter" =>
            /\ emitted[n] = SelectSeq(received[n], predicate_)
            /\ \A e \in edges :
                  e[1] = n => \A x \in Range(received[e[2]]) : predicate_(x)

\* C13 witness: the filter pulled an item that fails the predicate out of
\* its predecessor's latch, having forwarded others and dropped none by
\* push.
C13_Witness ==
    \E n \in Nodes :
        /\ kind[n] = "filter"
        /\ pulled[n] # None
        /\ ~predicate_(pulled[n])
        /\ emitted[n] # <<>>

\* C14 (as claimed): once every closure is over and every
\* increment_wait_count is matched by a decrement_wait_count,
\* wait_for_all returns.
C14_WaitForAllReturns == <>(waiter = "returned")

\* The thread t holds the mutex of node x while it is executing, or is
\* blocked entering, a method of another node that x called.
HoldsWhileCalling(t, x) ==
    \E j \in 1..(Len(thr[t]) - 1) :
        /\ thr[t][j].node = x
        /\ mutex_[x] = t
        /\ thr[t][j + 1].node # x

\* C15 (as claimed): no thread holds a node's mutex while it is inside, or
\* blocked entering, a neighbour's try_put or try_get.
C15_NoMutexAcrossCalls ==
    \A t \in Threads : \A x \in Nodes : ~HoldsWhileCalling(t, x)

OffersHead ==
    \A t \in DOMAIN thr : \A j \in 1..(Len(thr[t]) - 1) :
        LET f == thr[t][j]
        IN  /\ f.pc = "succ_wait" =>
                /\ successors_[f.node] # <<>>
                /\ thr[t][j + 1].node = Head(successors_[f.node])
            /\ f.pc = "pred_wait" =>
                /\ predecessors_[f.node] # <<>>
                /\ thr[t][j + 1].node = Head(predecessors_[f.node])

\* A step changes a cache only by erasing its head or adding at its back.
FifoStep(old, new) ==
    \/ new = old
    \/ old # <<>> /\ new = Tail(old)
    \/ Len(new) = Len(old) + 1 /\ SubSeq(new, 1, Len(old)) = old

\* No item was taken by two receivers of one sender.
AtMostOneAccepts ==
    \A e1 \in edges : \A e2 \in edges :
        e1[1] = e2[1] /\ e1[2] # e2[2] =>
            Range(received[e1[2]]) \cap Range(received[e2[2]]) = {}

\* A step in which node n acts on a false from successors_.try_put: a
\* queue_node enqueues, a source_node or function_node latches.
PutFailed(n) ==
    \/ Len(queue_'[n]) > Len(queue_[n])
    \/ value_[n] = None /\ value_'[n] # None

\* A step in which function_node n is left idle by its closure: its
\* predecessors_.try_get returned false.
GetFailed(n) ==
    /\ kind[n] = "function"
    /\ \E t \in Tasks : t[1] = n /\ thr[t] # <<>> /\ thr'[t] = <<>>
    /\ ~active_'[n] /\ value_'[n] = None

\* C17: successors_.try_put and predecessors_.try_get walk the cache front
\* to back in insertion order (the neighbour being asked is the head, entries
\* leave at the front and arrive at the back), stop at the first success so
\* that no item is accepted by two successors, and leave the cache empty
\* when they return false.
C17_FifoFirstAcceptance ==
    /\ [](OffersHead /\ AtMostOneAccepts)
    /\ [][\A n \in Nodes :
            /\ FifoStep(successors_[n], successors_'[n])
            /\ FifoStep(predecessors_[n], predecessors_'[n])
            /\ PutFailed(n) => successors_'[n] = <<>>
            /\ GetFailed(n) => predecessors_'[n] = <<>>]_vars

\* C17 witness: the first cached receiver refused and was erased, and the
\* walk now waits for the second one, which is the head of the cache.
C17_Witness ==
    \E t \in DOMAIN thr : \E j \in 1..(Len(thr[t]) - 1) :
        /\ thr[t][j].pc = "succ_wait"
        /\ thr[t][j].node = 1
        /\ thr[t][j + 1].node = 3
        /\ successors_[1] = <<3>>
        /\ <<1, 2>> \in edges /\ handoff[<<1, 2>>] = "put_refused"

\* An executor task is blocked in cond_.wait until a downstream try_get.
Blocked(t) == thr[t] # <<>> /\ thr[t][Len(thr[t])].pc = "waiting"

\* C18 (as claimed): in both generator_node variants the latch is occupied
\* only while active is false, and no executor task is blocked waiting for
\* a downstream try_get.
C18_ParksWithoutWaiting ==
    /\ \A n \in Nodes :
          kind[n] \in {"generator", "coroutine"} /\ value_[n] # None => ~active_[n]
    /\ \A t \in Tasks : ~Blocked(t)

\* Every edge of the graphs of Spec.
AllEdges == UNION {g.edges : g \in Pipelines \cup {FanIn}}

\* The function_node at the end of edge e refused the last push of e's
\* sender, and nothing was tried on the edge since.
RefusedByFunction(e) ==
    /\ e \in edges
    /\ kind[e[2]] = "function"
    /\ handoff[e] = "put_refused"

\* The last thing tried on edge e was the receiver's pull: it called the
\* sender's try_get.
PulledFrom(e) == e \in edges /\ handoff[e] \in {"get_satisfied", "get_refused"}

\* The sender of edge e holds no item in its latch.
LatchTaken(e) == e \in edges /\ value_[e[1]] = None

\* The edges of the graphs of Spec that end in a function_node.
FunctionEdges ==
    UNION {{e \in g.edges : g.kind[e[2]] = "function"} : g \in Pipelines \cup {FanIn}}

\* C19: a sender whose try_put a busy function_node refused stays in the
\* node's predecessor cache and is pulled from later on: the next thing
\* tried on the edge is the function_node's predecessors_.try_get, after
\* which the sender's latch holds no item.
C19_RefusedSenderIsPulled ==
    /\ [](\A e \in FunctionEdges :
            RefusedByFunction(e) => e[1] \in Range(predecessors_[e[2]]))
    /\ \A e \in FunctionEdges :
          RefusedByFunction(e) ~> (PulledFrom(e) /\ LatchTaken(e))

\* C19 witness: a function_node, free again, has pulled an item from a
\* sender it had refused.
C19_Witness ==
    \E e \in edges :
        /\ kind[e[2]] = "function"
        /\ handoff[e] = "get_satisfied"
        /\ pulled[e[2]] # None
        /\ e[1] \in Range(predecessors_[e[2]])

\* The receiver of edge e pulled from the source_node at its other end,
\* found the latch empty and was recorded; nothing was tried on the edge
\* since.
WaitingOn(e) ==
    /\ e \in edges
    /\ kind[e[1]] = "source"
    /\ handoff[e] = "get_refused"

\* A production closure of source_node n is in flight and has produced a
\* value, or will: the body has not returned false.
WillProduce(n) ==
    \E t \in ProductionInFlight(n) :
        thr[t][1].o # None \/ body_[n] < NumItems

\* The last thing tried on edge e was a push.
OfferedTo(e) == e \in edges /\ handoff[e] \in {"put_accepted", "put_refused"}

\* C20 (as claimed): a receiver recorded by a failed try_get on a
\* source_node is never left waiting while the source holds a value in its
\* latch with an empty successor cache, and when a production task is in
\* flight the next value produced is offered to it by try_put.
C20_RecordedReceiverIsOffered ==
    /\ [](\A e \in AllEdges :
            WaitingOn(e) => ~(value_[e[1]] # None /\ successors_[e[1]] = <<>>))
    /\ \A e \in AllEdges : (WaitingOn(e) /\ WillProduce(e[1])) ~> OfferedTo(e)

\* The values the body of source_node 1 produces.
SourceValues == {source_body(1, j) : j \in 1..NumItems}

\* The next value source_node n hands on: the one its closure in flight
\* has produced, else the one the body returns next.
NextValue(n) ==
    LET done == {t \in ProductionInFlight(n) : thr[t][1].o # None}
    IN  IF done # {}
        THEN thr[CHOOSE t \in done : TRUE][1].o
        ELSE source_body(n, body_[n] + 1)

\* The receiver of edge e still waits, and a receiver cached before it
\* has accepted x.
TakenAhead(e, x) ==
    /\ WaitingOn(e)
    /\ \E j \in DOMAIN successors_[e[1]] : \E k \in 1..(j - 1) :
          /\ successors_[e[1]][j] = e[2]
          /\ handoff[<<e[1], successors_[e[1]][k]>>] = "put_accepted"
          /\ x \in Range(received[successors_[e[1]][k]])

\* C20 (amended): a receiver recorded by a failed try_get on a source_node
\* is never left waiting while the source holds a value in its latch with
\* an empty successor cache, and when a production task is in flight the
\* next value produced is offered to it by try_put unless a receiver
\* cached before it accepts that value.
C20_RecordedReceiverIsServed ==
    /\ [](\A e \in AllEdges :
            WaitingOn(e) => ~(value_[e[1]] # None /\ successors_[e[1]] = <<>>))
    /\ \A e \in AllEdges : \A x \in SourceValues :
          (WaitingOn(e) /\ WillProduce(e[1]) /\ NextValue(e[1]) = x)
              ~> (OfferedTo(e) \/ TakenAhead(e, x))

\* C20 witness: the receiver is recorded after a failed pull and the
\* production task in flight has produced the next value.
C20_Witness ==
    \E e \in edges :
        /\ WaitingOn(e)
        /\ e[2] \in Range(successors_[e[1]])
        /\ \E t \in ProductionInFlight(e[1]) : thr[t][1].o # None

\* Closures of node n that are submitted and not over.
InFlight(n) == {t \in Tasks : t[1] = n /\ thr[t] # <<>>}

\* The receivers wired to node n.
Receivers(n) == {e[2] : e \in {x \in edges : x[1] = n}}

\* Outputs node n has produced and its receivers, which have no other
\* sender, have not taken yet.
PendingOutputs(n) ==
    Len(emitted[n])
        - Cardinality(UNION {{<<r, j>> : j \in DOMAIN received[r]} : r \in Receivers(n)})

\* C21: a function_node with an output in its latch is not active and has
\* no closure in flight, so its body does not run; at most one output it
\* produced is not delivered yet; none of its ASSERT(!value_) /
\* ASSERT(!active_) fails; and a latched output leaves the latch only by a
\* try_get that hands that very value to its caller (at once, or after its
\* spawn_get has pulled from upstream).
C21_OnePendingOutput ==
    /\ [](\A n \in Nodes :
            kind[n] = "function" =>
                /\ value_[n] # None => ~active_[n] /\ InFlight(n) = {}
                /\ PendingOutputs(n) <= 1
                /\ PendingOutputs(n) >= 0)
    /\ [](failed \cap {"function_node !value_", "function_node !active_",
                       "function_node task !value_"} = {})
    /\ [][\A n \in Nodes :
            kind[n] = "function" /\ value_[n] # None /\ value_'[n] # value_[n] =>
                /\ value_'[n] = None
                /\ \/ \E r \in Receivers(n) :
                         /\ pulled'[r] = value_[n]
                         /\ received'[r] = Append(received[r], value_[n])
                   \/ \E t \in DOMAIN thr : \E j \in DOMAIN thr'[t] :
                         /\ thr'[t][j].node = n
                         /\ thr'[t][j].op = "try_get"
                         /\ thr'[t][j].o = value_[n]]_vars

\* C21 witness: a function_node holds a refused output in its latch while
\* its sender holds the next item.
C21_Witness ==
    \E e \in edges :
        /\ kind[e[2]] = "function"
        /\ value_[e[2]] # None
        /\ value_[e[1]] # None
        /\ PendingOutputs(e[2]) = 1

C23_NoCallbackUnderMutex == \A c \in invoked : ~c[3]

\* The push over edge e ends refused in this step.
PushRefused(e) == handoff[e] # "put_refused" /\ handoff'[e] = "put_refused"

\* C24: a filter_node stores no item: it has no latch, queue or live body.
\* When it refuses a push (the predicate held and every cached successor
\* refused), it has taken and handed on nothing, its successor cache is
\* empty, the sender is appended to its predecessor cache, and the item is
\* still with the sender.
C24_FilterKeepsNothing ==
    /\ [](\A n \in Nodes :
            kind[n] = "filter" =>
                /\ value_[n] = None /\ queue_[n] = <<>>
                /\ ~active_[n] /\ source_[n] = <<>>
                /\ Len(received[n]) = Len(emitted[n])
                      + Len(SelectSeq(received[n], LAMBDA x : ~predicate_(x))))
    /\ [][\A e \in edges :
            kind[e[2]] = "filter" /\ PushRefused(e) =>
                /\ received'[e[2]] = received[e[2]]
                /\ emitted'[e[2]] = emitted[e[2]]
                /\ successors_'[e[2]] = <<>>
                /\ predecessors_'[e[2]] = Append(predecessors_[e[2]], e[1])
                /\ value_'[e[1]] # None
                /\ predicate_(value_'[e[1]])]_vars

\* C24 witness: a filter_node has refused its sender's push; the sender
\* holds the item and is in the filter's predecessor cache.
C24_Witness ==
    \E e \in edges :
        /\ kind[e[2]] = "filter"
        /\ handoff[e] = "put_refused"
        /\ e[1] \in Range(predecessors_[e[2]])
        /\ value_[e[1]] # None
        /\ mutex_[e[2]] = NoThread

\* C25 (as claimed): ASSERT(!source_) at the start of
\* generator_node::spawn_put never fails: no body is instantiated for a new
\* input, from try_put or from a pull of the predecessor cache, while the
\* previous body still has outputs to yield.
C25_SpawnPutFindsNoBody == "generator_node !source_" \notin failed

\* C26 (as claimed): a null sender or receiver is never stored in a node's
\* successor list, successor cache or predecessor cache, and no node calls
\* try_put or try_get through a null neighbour.
C26_NoNullNeighbour ==
    /\ ~crashed
    /\ \A n \in Nodes :
          nullptr \notin Range(successors_[n]) \cup Range(predecessors_[n])

\* C27 (as claimed): try_get on a broadcast_node returns false and leaves
\* the delivery set as register_successor built it: whenever nobody is
\* inside the node, each wired receiver has been offered each accepted
\* item once and nobody else was offered anything, also for a receiver
\* named in a try_get.
C27_TryGetKeepsDeliverySet ==
    /\ \A j \in Calls("get") : ~results[j].ret
    /\ \A n \in Nodes :
          (kind[n] = "broadcast" /\ mutex_[n] = NoThread) =>
              /\ successors_[n] = Registered(edges, n)
              /\ Len(emitted[n]) = Len(received[n]) * Len(Registered(edges, n))
              /\ \A j \in DOMAIN emitted[n] : <<n, emitted[n][j][1]>> \in edges

\* The writes to the head node that have begun.
Writes == Cardinality(Calls("put")) + (IF thr[Producer] # <<>> THEN 1 ELSE 0)

\* Thread t is about to take a mutex that thread u holds.
WaitsFor(t, u) ==
    /\ thr[t] # <<>>
    /\ Top(State, t).pc = "enter"
    /\ mutex_[Top(State, t).node] = u

\* C28 (as claimed): a function_node fed by an overwrite_node runs its
\* body at most once per written value, and a write to the overwrite_node
\* and the function_node's pull from it never wait for each other's mutex.
C28_LatchRunsOncePerWrite ==
    /\ \A e \in edges :
          (kind[e[1]] = "overwrite" /\ kind[e[2]] = "function") =>
              Len(emitted[e[2]]) <= Writes
    /\ \A t, u \in Threads : ~(t # u /\ WaitsFor(t, u) /\ WaitsFor(u, t))

\* The edge e joins a sender that keeps a successor cache and passes
\* itself as sender to a receiver that keeps a predecessor cache.
CachedEdge(e) ==
    /\ kind[e[1]] \in {"source", "queue", "filter", "function", "generator",
                       "coroutine"}
    /\ kind[e[2]] \in {"filter", "function", "generator", "coroutine"}

\* C29: for every edge s -> r between a successor cache and a predecessor
\* cache, whenever neither node's mutex is held, r is in s's successor
\* cache or s is in r's predecessor cache but not both, and neither cache
\* lists the neighbour twice.
C29_EdgeOnOneSide ==
    \A e \in edges :
        (CachedEdge(e) /\ mutex_[e[1]] = NoThread /\ mutex_[e[2]] = NoThread) =>
            /\ (e[2] \in Range(successors_[e[1]])) # (e[1] \in Range(predecessors_[e[2]]))
            /\ Count(e[2], successors_[e[1]]) <= 1
            /\ Count(e[1], predecessors_[e[2]]) <= 1

\* C29 witness: an edge that went to the pull side and came back: the
\* receiver's last pull was refused, so it is in the sender's successor
\* cache again and the sender has left its predecessor cache.
C29_Witness ==
    \E e \in edges :
        /\ CachedEdge(e)
        /\ mutex_[e[1]] = NoThread /\ mutex_[e[2]] = NoThread
        /\ handoff[e] = "get_refused"
        /\ e[2] \in Range(successors_[e[1]])
        /\ e[1] \notin Range(predecessors_[e[2]])

====
